---- MODULE Spec2Model ----
(***************************************************************************)
(* A model of three client-side units of the AutoGPT platform frontend:    *)
(*   - OttoChatWidget (components/OttoChatWidget.tsx): the chat transcript *)
(*     and the asynchronous handleSubmit handler;                          *)
(*   - useCredits (hooks): the auto top-up configuration and the paginated *)
(*     transaction history;                                                *)
(*   - the onboarding step "4-agent" (app/onboarding/4-agent/page.tsx).    *)
(*                                                                         *)
(* JavaScript strings are sequences of one-character strings, so that      *)
(* String.prototype.trim is computed and not assumed.  A fixed literal of  *)
(* the program (a message text, an error text) is a one-element sequence   *)
(* holding the literal: it contains no whitespace character of the model   *)
(* and trim never applies to it.  An optional value (T | null, or          *)
(* T | undefined) is a sequence of length at most one.                     *)
(*                                                                         *)
(* React state: every event handler and every continuation of an await     *)
(* runs to completion on the single UI thread and React commits its        *)
(* batched state updates before the next event is dispatched, so one       *)
(* action is one handler run (or one continuation) with all its setState   *)
(* calls.  A callback reads the values of the render it was created in;    *)
(* an asynchronous invocation therefore carries the values it captured.    *)
(***************************************************************************)
EXTENDS Integers, Sequences, FiniteSets, TLC

VARIABLES
    \* ---- OttoChatWidget
    messages,           \* useState<Message[]>
    inputValue,         \* useState("")
    isProcessing,       \* useState(false)
    includeGraphData,   \* useState(false)
    supabase,           \* TRUE iff useSupabase() supplied a client
    calls,              \* the handleSubmit invocations suspended at an await
    toasts,             \* number of toast() notices shown
    nSubmits,           \* number of accepted submits so far
    chatEvent,          \* the last event dispatched to the widget
    toggledInFlight     \* the opt-in button was clicked since the last accepted submit

chatVars == <<messages, inputValue, isProcessing, includeGraphData, supabase,
              calls, toasts, nSubmits, chatEvent, toggledInFlight>>

VARIABLES
    \* ---- useCredits: transaction history
    transactionHistory, \* useState<TransactionHistory>
    historyCalls,       \* fetchTransactionHistory invocations awaiting the API
    nFetches,           \* fetchTransactionHistory invocations so far
    arrived,            \* every page returned so far, concatenated in arrival order
    historyEvent,       \* the last event of the history part
    \* ---- useCredits: auto top-up configuration
    autoTopUpConfig,    \* useState<{amount, threshold} | null>
    reads,              \* getAutoTopUpConfig requests awaiting the API
    writes,             \* updateAutoTopUpConfig invocations awaiting setAutoTopUpConfig
    nUpdates,           \* updateAutoTopUpConfig invocations so far
    nRefreshes,         \* on-demand fetchAutoTopUpConfig invocations so far
    lastWritten,        \* the input of the last write the API accepted
    configEvent         \* the last event of the configuration part

historyVars == <<transactionHistory, historyCalls, nFetches, arrived, historyEvent>>
configVars == <<autoTopUpConfig, reads, writes, nUpdates, nRefreshes,
                lastWritten, configEvent>>

VARIABLES
    \* ---- onboarding step 4-agent
    wizardState,        \* useOnboarding(4).state, absent until the wizard has one
    agents,             \* useState<StoreAgentDetails[]>([])
    loadPending,        \* the Promise.all of the mount effect has not settled
    wizardEvent         \* the last event of the page

wizardVars == <<wizardState, agents, loadPending, wizardEvent>>

VARIABLES
    \* ---- the conversation_history derivation on its own
    pairsTranscript,    \* the transcript of the render handleSubmit runs in
    pairsQuestion,      \* the trimmed text being submitted
    pairsPayload        \* the request body built, once built

pairsVars == <<pairsTranscript, pairsQuestion, pairsPayload>>

vars == <<chatVars, historyVars, configVars, wizardVars, pairsVars>>

\* ------------------------------------------------------------------ bounds

MaxSubmits == 2
MaxFetches == 3
MaxPage == 2
MaxUpdates == 2
MaxRefreshes == 1
MaxTranscript == 4

\* ----------------------------------------------------------------- strings

None == <<>>
Some(x) == <<x>>

\* The characters String.prototype.trim strips: ECMAScript's WhiteSpace and
\* LineTerminator.  A character a TLA+ string literal cannot hold is written
\* as the name of its code point, "U+XXXX", and stands for that one character.
\*   WhiteSpace: TAB, VT, FF, SP, NBSP, ZWNBSP (U+FEFF) and the other
\*     space separators (Zs) U+1680, U+2000..U+200A, U+202F, U+205F, U+3000;
\*   LineTerminator: LF, CR, LS (U+2028), PS (U+2029).
Whitespace ==
    { "\t", "U+000B", "\f", " ", "U+00A0", "U+FEFF",
      "U+1680", "U+2000", "U+2001", "U+2002", "U+2003", "U+2004", "U+2005",
      "U+2006", "U+2007", "U+2008", "U+2009", "U+200A", "U+202F", "U+205F",
      "U+3000",
      "\n", "\r", "U+2028", "U+2029" }

RECURSIVE TrimStart(_)
TrimStart(s) ==
    IF s # <<>> /\ Head(s) \in Whitespace THEN TrimStart(Tail(s)) ELSE s

RECURSIVE TrimEnd(_)
TrimEnd(s) ==
    IF s # <<>> /\ s[Len(s)] \in Whitespace
    THEN TrimEnd(SubSeq(s, 1, Len(s) - 1))
    ELSE s

\* String.prototype.trim
Trim(s) == TrimEnd(TrimStart(s))

\* ---------------------------------------------------------- OttoChatWidget

WelcomeText == <<"Hello im Otto! Ask me anything about AutoGPT!">>
ProcessingText == <<"Processing your question...">>
SignInText == <<"Please sign in to use the chat feature.">>
RetryText ==
    <<"Sorry, there was an error processing your message. Please try again.">>

ErrNoClient == "Supabase client not initialized"
ErrNoSession == "No active session"
ErrAuthRequired == "Authentication required"
ErrApiStatus(status) == "API request failed with status " \o ToString(status)
\* what a rejected promise of the platform throws (fetch, getSession, json)
ErrNetwork == "Failed to fetch"
ErrParse == "Unexpected end of JSON input"

Unauthorized == 401
\* the statuses the backend answers with in the model; response.ok is 200..299
Statuses == {200, Unauthorized, 500}
ResponseOk(status) == status \in 200..299

\* what the user types: empty, whitespace only (space, tab, form feed,
\* no-break space), plain, padded, inner space
Inputs == { <<>>, <<" ">>, <<" ", "\t">>, <<"\f">>, <<"a">>,
            <<" ", "a", "\n">>, <<"\f", "a", "U+00A0">>, <<"a", " ", "b">> }
\* data.answer of a successful reply
Answers == { <<"AutoGPT is a platform for building agents.">> }

UserMsg(c) == [type |-> "user", content |-> c]
AssistantMsg(c) == [type |-> "assistant", content |-> c]
Placeholder == AssistantMsg(ProcessingText)

ChatEvent(kind, status) == [kind |-> kind, status |-> status]

\* handleSubmit's early return without the trim: only the empty string is blank
IgnoredEmptyOnly(value, processing) == value = <<>> \/ processing

\* handleSubmit's early return without the in-flight test
IgnoredBlankOnly(value, processing) == Trim(value) = <<>>

\* the early return of handleSubmit
Ignored(value, processing) == Trim(value) = <<>> \/ processing

\* messages.reduce((acc, msg, i, arr) => ..., []) from index i on (1-based)
RECURSIVE ReduceFrom(_, _, _)
ReduceFrom(arr, i, acc) ==
    IF i > Len(arr) THEN acc
    ELSE ReduceFrom(arr, i + 1,
            IF /\ arr[i].type = "user"
               /\ i + 1 <= Len(arr)
               /\ arr[i + 1].type = "assistant"
            THEN Append(acc, [query |-> arr[i].content,
                              response |-> arr[i + 1].content])
            ELSE acc)

\* the reduce without the test that the next message is the assistant's
RECURSIVE ReduceAnyReplyFrom(_, _, _)
ReduceAnyReplyFrom(arr, i, acc) ==
    IF i > Len(arr) THEN acc
    ELSE ReduceAnyReplyFrom(arr, i + 1,
            IF arr[i].type = "user" /\ i + 1 <= Len(arr)
            THEN Append(acc, [query |-> arr[i].content,
                              response |-> arr[i + 1].content])
            ELSE acc)

ConversationHistoryAnyReply(arr) == ReduceAnyReplyFrom(arr, 1, <<>>)

ConversationHistory(arr) == ReduceFrom(arr, 1, <<>>)

\* the request body; user_id, message_id and graph_id are carried through
\* unchanged from the environment and are left out
BuildPayload(userMessage, closureMessages, closureFlag) ==
    [query |-> userMessage,
     conversation_history |-> ConversationHistory(closureMessages),
     include_graph_data |-> closureFlag]

\* [...prev.slice(0, -1), m]
ReplaceLast(prev, m) == Append(SubSeq(prev, 1, Len(prev) - 1), m)

\* the text the catch block chooses (every thrown value here is an Error)
ErrorMessage(err) == IF err = ErrNoSession THEN SignInText ELSE RetryText

\* catch + finally for an error thrown while prev is the committed transcript
Catch(prev, err) == ReplaceLast(prev, AssistantMsg(ErrorMessage(err)))

\* the catch block without the finally: the in-flight flag is left set
FailStuck(c, err) ==
    /\ messages' = Catch(messages, err)
    /\ isProcessing' = isProcessing
    /\ calls' = calls \ {c}

\* catch + finally of a suspended invocation c
Fail(c, err) ==
    /\ messages' = Catch(messages, err)
    /\ isProcessing' = FALSE
    /\ calls' = calls \ {c}

\* the widget as constructed: the useState initial values, nothing mounted
ChatUnmounted ==
    /\ messages = <<>>
    /\ inputValue = <<>>
    /\ isProcessing = FALSE
    /\ includeGraphData = FALSE
    /\ supabase = FALSE
    /\ calls = {}
    /\ toasts = 0
    /\ nSubmits = 0
    /\ chatEvent = ChatEvent("none", 0)
    /\ toggledInFlight = FALSE

\* the widget after its mount effect has added the welcome message
ChatInit ==
    /\ messages = <<AssistantMsg(WelcomeText)>>
    /\ inputValue = <<>>
    /\ isProcessing = FALSE
    /\ includeGraphData = FALSE
    /\ supabase \in BOOLEAN
    /\ calls = {}
    /\ toasts = 0
    /\ nSubmits = 0
    /\ chatEvent = ChatEvent("mount", 0)
    /\ toggledInFlight = FALSE

\* onChange of the text input
SetInputValue(v) ==
    /\ inputValue' = v
    /\ chatEvent' = ChatEvent("change", 0)
    /\ UNCHANGED <<messages, isProcessing, includeGraphData, supabase, calls,
                   toasts, nSubmits, toggledInFlight>>

\* onClick of the "Include graph data" button
ToggleGraphData ==
    /\ includeGraphData' = ~includeGraphData
    /\ toggledInFlight' = (toggledInFlight \/ calls # {})
    /\ chatEvent' = ChatEvent("toggle", 0)
    /\ UNCHANGED <<messages, inputValue, isProcessing, supabase, calls,
                   toasts, nSubmits>>

\* handleSubmit up to its first await (or to its end when nothing is awaited)
HandleSubmit ==
    /\ chatEvent' = ChatEvent("submit", 0)
    /\ IF Ignored(inputValue, isProcessing)
       THEN UNCHANGED <<messages, inputValue, isProcessing, includeGraphData,
                        supabase, calls, toasts, nSubmits, toggledInFlight>>
       ELSE /\ nSubmits < MaxSubmits
            /\ inputValue' = <<>>
            /\ nSubmits' = nSubmits + 1
            /\ toggledInFlight' = FALSE
            /\ IF ~supabase
               THEN \* throws before any await: try, catch and finally in one run
                    /\ messages' = Catch(Append(messages, UserMsg(Trim(inputValue))),
                                         ErrNoClient)
                    /\ isProcessing' = FALSE
                    /\ calls' = calls
               ELSE /\ messages' = Append(messages, UserMsg(Trim(inputValue)))
                    /\ isProcessing' = TRUE
                    /\ calls' = calls \cup
                         {[id |-> nSubmits + 1,
                           pc |-> "getSession",
                           userMessage |-> Trim(inputValue),
                           closureMessages |-> messages,
                           closureFlag |-> includeGraphData,
                           payload |-> None]}
            /\ UNCHANGED <<includeGraphData, supabase, toasts>>

\* await supabase.auth.getSession() settles; then up to the fetch
SessionSettles(c) ==
    /\ c.pc = "getSession"
    /\ \/ /\ chatEvent' = ChatEvent("session", 0)
          /\ includeGraphData' = FALSE
          /\ messages' = Append(messages, Placeholder)
          /\ calls' = (calls \ {c}) \cup
                {[c EXCEPT !.pc = "fetch",
                           !.payload = Some(BuildPayload(c.userMessage,
                                                         c.closureMessages,
                                                         c.closureFlag))]}
          /\ UNCHANGED isProcessing
       \/ /\ chatEvent' = ChatEvent("noSession", 0)
          /\ Fail(c, ErrNoSession)
          /\ UNCHANGED includeGraphData
       \/ /\ chatEvent' = ChatEvent("sessionRejected", 0)
          /\ Fail(c, ErrNetwork)
          /\ UNCHANGED includeGraphData
    /\ UNCHANGED <<inputValue, supabase, toasts, nSubmits, toggledInFlight>>

\* await fetch(...) settles; then up to response.json()
FetchSettles(c) ==
    /\ c.pc = "fetch"
    /\ \/ \E status \in Statuses :
            /\ chatEvent' = ChatEvent("response", status)
            /\ IF ResponseOk(status)
               THEN /\ calls' = (calls \ {c}) \cup {[c EXCEPT !.pc = "json"]}
                    /\ UNCHANGED <<messages, isProcessing, toasts>>
               ELSE IF status = Unauthorized
               THEN /\ toasts' = toasts + 1
                    /\ Fail(c, ErrAuthRequired)
               ELSE /\ Fail(c, ErrApiStatus(status))
                    /\ UNCHANGED toasts
       \/ /\ chatEvent' = ChatEvent("fetchRejected", 0)
          /\ Fail(c, ErrNetwork)
          /\ UNCHANGED toasts
    /\ UNCHANGED <<inputValue, includeGraphData, supabase, nSubmits,
                   toggledInFlight>>

\* await response.json() settles; then to the end of handleSubmit
JsonSettles(c) ==
    /\ c.pc = "json"
    /\ \/ \E answer \in Answers :
            /\ chatEvent' = ChatEvent("answer", 0)
            /\ messages' = ReplaceLast(messages, AssistantMsg(answer))
            /\ isProcessing' = FALSE
            /\ calls' = calls \ {c}
       \/ /\ chatEvent' = ChatEvent("jsonRejected", 0)
          /\ Fail(c, ErrParse)
    /\ UNCHANGED <<inputValue, includeGraphData, supabase, toasts, nSubmits,
                   toggledInFlight>>

Settle == \E c \in calls : SessionSettles(c) \/ FetchSettles(c) \/ JsonSettles(c)

\* ------------------------------------------- useCredits: transaction history

PageSize == 20

\* response.next_transaction_time when it is not null
CursorTimes == {"2025-01-01T00:00:00", "2025-02-01T00:00:00"}

\* the k transactions the API returns to invocation id
Page(id, k) == [j \in 1..k |-> [call |-> id, item |-> j]]

HistoryUnmounted ==
    /\ transactionHistory = [transactions |-> <<>>, next_transaction_time |-> None]
    /\ historyCalls = {}
    /\ nFetches = 0
    /\ arrived = <<>>
    /\ historyEvent = "none"

\* an invocation of fetchTransactionHistory as created by a render with state
\* th: the arguments of api.getTransactionHistory and the captured state
HistoryCall(id, th) ==
    [id |-> id,
     cursor |-> th.next_transaction_time,
     limit |-> PageSize,
     closure |-> th]

\* the value handed to setTransactionHistory
Accumulate(c, response) ==
    [transactions |-> c.closure.transactions \o response.transactions,
     next_transaction_time |-> response.next_transaction_time]

\* the hook after mount: useEffect(() => { fetchTransactionHistory() }, []) has
\* issued the first request
HistoryInit ==
    /\ transactionHistory = [transactions |-> <<>>, next_transaction_time |-> None]
    /\ historyCalls = {HistoryCall(1, transactionHistory)}
    /\ nFetches = 1
    /\ arrived = <<>>
    /\ historyEvent = "mount"

\* fetchTransactionHistory() called on demand, up to its await
FetchTransactionHistory ==
    /\ nFetches < MaxFetches
    /\ nFetches' = nFetches + 1
    /\ historyCalls' = historyCalls \cup {HistoryCall(nFetches + 1, transactionHistory)}
    /\ historyEvent' = "call"
    /\ UNCHANGED <<transactionHistory, arrived>>

\* api.getTransactionHistory resolves
HistoryResolves(c) ==
    \E k \in 0..MaxPage, next \in {None} \cup {Some(t) : t \in CursorTimes} :
        LET response == [transactions |-> Page(c.id, k),
                         next_transaction_time |-> next]
        IN  /\ transactionHistory' = Accumulate(c, response)
            /\ arrived' = arrived \o response.transactions
            /\ historyCalls' = historyCalls \ {c}
            /\ historyEvent' = "resolved"
            /\ UNCHANGED nFetches

\* api.getTransactionHistory rejects: nothing catches it, no state is set
HistoryRejects(c) ==
    /\ historyCalls' = historyCalls \ {c}
    /\ historyEvent' = "rejected"
    /\ UNCHANGED <<transactionHistory, nFetches, arrived>>

\* ------------------------------------- useCredits: auto top-up configuration

\* the configurations of the model, as written by the caller or held by the API
Configs == { [amount |-> 500, threshold |-> 100],
             [amount |-> 1000, threshold |-> 200] }

ConfigEvent(kind, config) == [kind |-> kind, config |-> config]

ConfigUnmounted ==
    /\ autoTopUpConfig = None
    /\ reads = 0
    /\ writes = {}
    /\ nUpdates = 0
    /\ nRefreshes = 0
    /\ lastWritten = None
    /\ configEvent = ConfigEvent("none", None)

\* the hook after mount: useEffect(() => { fetchAutoTopUpConfig() }) has issued
\* the first read
ConfigInit ==
    /\ autoTopUpConfig = None
    /\ reads = 1
    /\ writes = {}
    /\ nUpdates = 0
    /\ nRefreshes = 0
    /\ lastWritten = None
    /\ configEvent = ConfigEvent("mount", None)

\* fetchAutoTopUpConfig() up to its await: one more read in flight
IssueRead(n) == n + 1

\* fetchAutoTopUpConfig() called on demand
FetchAutoTopUpConfig ==
    /\ nRefreshes < MaxRefreshes
    /\ nRefreshes' = nRefreshes + 1
    /\ reads' = IssueRead(reads)
    /\ configEvent' = ConfigEvent("readCall", None)
    /\ UNCHANGED <<autoTopUpConfig, writes, nUpdates, lastWritten>>

\* api.getAutoTopUpConfig resolves: setAutoTopUpConfig(response)
ReadResolves ==
    /\ reads > 0
    /\ \E response \in Configs :
        /\ autoTopUpConfig' = Some(response)
        /\ configEvent' = ConfigEvent("readResolved", Some(response))
    /\ reads' = reads - 1
    /\ UNCHANGED <<writes, nUpdates, nRefreshes, lastWritten>>

\* api.getAutoTopUpConfig rejects: nothing catches it, no state is set
ReadRejects ==
    /\ reads > 0
    /\ reads' = reads - 1
    /\ configEvent' = ConfigEvent("readRejected", None)
    /\ UNCHANGED <<autoTopUpConfig, writes, nUpdates, nRefreshes, lastWritten>>

\* updateAutoTopUpConfig(amount, threshold) up to its await
UpdateAutoTopUpConfig(input) ==
    /\ nUpdates < MaxUpdates
    /\ nUpdates' = nUpdates + 1
    /\ writes' = writes \cup {[id |-> nUpdates + 1, input |-> input]}
    /\ configEvent' = ConfigEvent("updateCall", Some(input))
    /\ UNCHANGED <<autoTopUpConfig, reads, nRefreshes, lastWritten>>

\* a continuation that trusts the write: it shows the input and reads nothing
AfterWriteTrustsInput(w) ==
    /\ reads' = reads
    /\ autoTopUpConfig' = Some(w.input)

\* what the continuation of updateAutoTopUpConfig does to the hook's state
\* once the write w has succeeded: fetchAutoTopUpConfig(), not awaited
AfterWrite(w) ==
    /\ reads' = IssueRead(reads)
    /\ UNCHANGED autoTopUpConfig

\* api.setAutoTopUpConfig resolves
WriteResolves(w) ==
    /\ writes' = writes \ {w}
    /\ lastWritten' = Some(w.input)
    /\ configEvent' = ConfigEvent("writeResolved", Some(w.input))
    /\ AfterWrite(w)
    /\ UNCHANGED <<nUpdates, nRefreshes>>

\* api.setAutoTopUpConfig rejects: the await throws, updateAutoTopUpConfig ends
WriteRejects(w) ==
    /\ writes' = writes \ {w}
    /\ configEvent' = ConfigEvent("writeRejected", Some(w.input))
    /\ UNCHANGED <<autoTopUpConfig, reads, nUpdates, nRefreshes, lastWritten>>

\* ------------------------------------------------- onboarding step 4-agent

storeAgents ==
    << [username |-> <<"bright-eagle-40613">>, slug |-> <<"subtractor">>],
       [username |-> <<"bright-eagle-40613">>, slug |-> <<"power">>] >>

\* the creator field of a StoreAgentDetails the store API returns
Creators == { <<"autogpt">>, <<"bright-eagle-40613">> }

\* api.getStoreAgent(username, slug) returns the details of the agent with
\* that slug
StoreAgentDetails(i, creator) == [slug |-> storeAgents[i].slug, creator |-> creator]

\* str: string | undefined | null, as an optional
isEmptyOrWhitespace(str) == str = None \/ str[1] = <<>> \/ Len(Trim(str[1])) = 0

\* the selection an earlier visit of the wizard may have left in its state
InitialSlugs == { None, Some(<<>>), Some(<<" ">>), Some(<<"\t", " ">>),
                  Some(<<"\f">>), Some(<<"U+2003", "U+FEFF">>),
                  Some(storeAgents[1].slug), Some(storeAgents[2].slug) }
InitialWizardStates ==
    {None} \cup
    { Some([selectedAgentSlug |-> s, selectedAgentCreator |-> c]) :
        s \in InitialSlugs, c \in {None} \cup {Some(x) : x \in Creators} }

WizardEvent(kind, card, before) == [kind |-> kind, card |-> card, before |-> before]

WizardUnmounted ==
    /\ wizardState = None
    /\ agents = <<>>
    /\ loadPending = FALSE
    /\ wizardEvent = WizardEvent("none", 0, 0)

\* the page after mount: the effect has issued both getStoreAgent requests
WizardInit ==
    /\ wizardState \in InitialWizardStates
    /\ agents = <<>>
    /\ loadPending = TRUE
    /\ wizardEvent = WizardEvent("mount", 0, 0)

\* state?.selectedAgentSlug
SelectedAgentSlug(state) == IF state = None THEN None ELSE state[1].selectedAgentSlug
SelectedAgentCreator(state) ==
    IF state = None THEN None ELSE state[1].selectedAgentCreator

\* setState of useOnboarding: the given fields are written into the wizard state
UpdateState(state, patch) ==
    IF state = None THEN Some(patch)
    ELSE Some([f \in DOMAIN state[1] \cup DOMAIN patch |->
                 IF f \in DOMAIN patch THEN patch[f] ELSE state[1][f]])

\* both cards handing the first agent to setState
CardPatchFirst(i) ==
    [selectedAgentSlug |-> Some(agents[1].slug),
     selectedAgentCreator |-> Some(agents[1].creator)]

\* the object card i hands to setState
CardPatch(i) ==
    [selectedAgentSlug |-> Some(agents[i].slug),
     selectedAgentCreator |-> Some(agents[i].creator)]

\* the selected prop of card i
Selected(i) ==
    IF i <= Len(agents)
    THEN SelectedAgentSlug(wizardState) = Some(agents[i].slug)
    ELSE FALSE

\* the disabled prop of the Next button
NextDisabled == isEmptyOrWhitespace(SelectedAgentSlug(wizardState))

\* Promise.all([...]).then(setAgents)
AgentsResolve ==
    /\ loadPending
    /\ loadPending' = FALSE
    /\ \E c1 \in Creators, c2 \in Creators :
         agents' = <<StoreAgentDetails(1, c1), StoreAgentDetails(2, c2)>>
    /\ wizardEvent' = WizardEvent("loaded", 0, 0)
    /\ UNCHANGED wizardState

\* Promise.all rejects: nothing catches it, the cards stay empty
AgentsReject ==
    /\ loadPending
    /\ loadPending' = FALSE
    /\ wizardEvent' = WizardEvent("loadFailed", 0, 0)
    /\ UNCHANGED <<wizardState, agents>>

\* onClick of card i; before the agents are loaded agents[i] is undefined and
\* reading its slug throws, so setState is not reached
ClickCard(i) ==
    /\ wizardEvent' = WizardEvent("click", i, wizardEvent.card)
    /\ IF i <= Len(agents)
       THEN wizardState' = UpdateState(wizardState, CardPatch(i))
       ELSE UNCHANGED wizardState
    /\ UNCHANGED <<agents, loadPending>>

\* ------------------------------------- conversation_history, as a function

PairContents == { <<"A">>, <<"B">>, <<"C">>, <<"D">> }
PairMessages == { [type |-> t, content |-> c] : t \in {"user", "assistant"},
                                                c \in PairContents }
Transcripts == UNION { [1..n -> PairMessages] : n \in 0..MaxTranscript }

PairsIdle ==
    /\ pairsTranscript = <<>>
    /\ pairsQuestion = <<>>
    /\ pairsPayload = None

PairsInit ==
    /\ pairsTranscript \in Transcripts
    /\ pairsQuestion \in { <<"A">>, <<"Q">> }
    /\ pairsPayload = None

\* the payload handleSubmit builds for the question in a render with this
\* transcript
DerivePayload ==
    /\ pairsPayload = None
    /\ \E flag \in BOOLEAN :
         pairsPayload' = Some(BuildPayload(pairsQuestion, pairsTranscript, flag))
    /\ UNCHANGED <<pairsTranscript, pairsQuestion>>

\* ------------------------------------------------------------ specifications

ChatFrame == UNCHANGED <<historyVars, configVars, wizardVars, pairsVars>>
ChatSpecInit ==
    ChatInit /\ HistoryUnmounted /\ ConfigUnmounted /\ WizardUnmounted /\ PairsIdle
ChatSpecNext ==
    \/ (\E v \in Inputs : SetInputValue(v)) /\ ChatFrame
    \/ ToggleGraphData /\ ChatFrame
    \/ HandleSubmit /\ ChatFrame
    \/ (\E c \in calls : SessionSettles(c)) /\ ChatFrame
    \/ (\E c \in calls : FetchSettles(c)) /\ ChatFrame
    \/ (\E c \in calls : JsonSettles(c)) /\ ChatFrame
ChatSpec == ChatSpecInit /\ [][ChatSpecNext]_vars

\* every awaited promise eventually resolves or rejects
ChatFairSpec == ChatSpec /\ WF_vars(Settle /\ ChatFrame)

HistoryFrame == UNCHANGED <<chatVars, configVars, wizardVars, pairsVars>>
HistorySpecInit ==
    HistoryInit /\ ChatUnmounted /\ ConfigUnmounted /\ WizardUnmounted /\ PairsIdle
HistorySpecNext ==
    \/ FetchTransactionHistory /\ HistoryFrame
    \/ (\E c \in historyCalls : HistoryResolves(c)) /\ HistoryFrame
    \/ (\E c \in historyCalls : HistoryRejects(c)) /\ HistoryFrame
HistorySpec == HistorySpecInit /\ [][HistorySpecNext]_vars

ConfigFrame == UNCHANGED <<chatVars, historyVars, wizardVars, pairsVars>>
ConfigSpecInit ==
    ConfigInit /\ ChatUnmounted /\ HistoryUnmounted /\ WizardUnmounted /\ PairsIdle
ConfigSpecNext ==
    \/ FetchAutoTopUpConfig /\ ConfigFrame
    \/ ReadResolves /\ ConfigFrame
    \/ ReadRejects /\ ConfigFrame
    \/ (\E input \in Configs : UpdateAutoTopUpConfig(input)) /\ ConfigFrame
    \/ (\E w \in writes : WriteResolves(w)) /\ ConfigFrame
    \/ (\E w \in writes : WriteRejects(w)) /\ ConfigFrame
ConfigSpec == ConfigSpecInit /\ [][ConfigSpecNext]_vars

WizardFrame == UNCHANGED <<chatVars, historyVars, configVars, pairsVars>>
WizardSpecInit ==
    WizardInit /\ ChatUnmounted /\ HistoryUnmounted /\ ConfigUnmounted /\ PairsIdle
WizardSpecNext ==
    \/ AgentsResolve /\ WizardFrame
    \/ AgentsReject /\ WizardFrame
    \/ (\E i \in 1..2 : ClickCard(i)) /\ WizardFrame
WizardSpec == WizardSpecInit /\ [][WizardSpecNext]_vars

PairsFrame == UNCHANGED <<chatVars, historyVars, configVars, wizardVars>>
PairsSpecInit ==
    PairsInit /\ ChatUnmounted /\ HistoryUnmounted /\ ConfigUnmounted /\ WizardUnmounted
PairsSpecNext == DerivePayload /\ PairsFrame
PairsSpec == PairsSpecInit /\ [][PairsSpecNext]_vars

\* -------------------------------------------------------------- properties

Last(seq) == seq[Len(seq)]
IsPrefix(a, b) == Len(a) <= Len(b) /\ SubSeq(b, 1, Len(a)) = a

\* every character is whitespace (the empty string included)
IsBlank(str) == \A i \in 1..Len(str) : str[i] \in Whitespace

\* a step in which an accepted submit finishes: either handleSubmit ran to its
\* end without awaiting, or a suspended invocation ended
Finishes ==
    \/ nSubmits' = nSubmits + 1 /\ calls' = calls
    \/ calls' # calls /\ calls' \subseteq calls

\* C1: when the ask-call returns HTTP 401, the entry that replaces the
\* placeholder is the sign-in message, not the generic retry message.
C1_UnauthorizedShowsSignIn ==
    chatEvent = ChatEvent("response", Unauthorized)
        => Last(messages) = AssistantMsg(SignInText)

\* C2: the transcript is append-only except for the placeholder: a step either
\* extends the transcript, or replaces its last element when that element is
\* the placeholder; nothing else is removed or overwritten.
C2_AppendOnlyExceptPlaceholder ==
    [][ \/ IsPrefix(messages, messages')
        \/ /\ messages # <<>>
           /\ Last(messages) = Placeholder
           /\ Len(messages') >= Len(messages)
           /\ IsPrefix(SubSeq(messages, 1, Len(messages) - 1), messages') ]_vars

\* C3: when an accepted submit has finished, whatever its outcome, the
\* include-graph-data flag is false (the user not having clicked the opt-in
\* button again in the meantime).
C3_FlagClearedAfterEverySubmit ==
    [][ Finishes /\ ~toggledInFlight' => ~includeGraphData' ]_vars

\* C4: at most one handleSubmit invocation (hence at most one ask-call) is
\* outstanding; a submit event that arrives while one is outstanding appends
\* nothing and starts nothing; a submit is accepted only when the in-flight
\* flag is reset.
C4_SingleFlight ==
    /\ [](Cardinality(calls) <= 1)
    /\ [][ chatEvent'.kind = "submit" /\ calls # {}
             => messages' = messages /\ calls' = calls /\ nSubmits' = nSubmits ]_vars
    /\ [][ nSubmits' # nSubmits => ~isProcessing /\ calls = {} ]_vars

\* a submit event arrived with text typed while a request was in flight
C4_Witness ==
    /\ chatEvent.kind = "submit"
    /\ Cardinality(calls) = 1
    /\ isProcessing
    /\ ~IsBlank(inputValue)
    /\ nSubmits = 1

\* C8: a submit of an empty or whitespace-only input changes nothing: not the
\* transcript, the in-flight flag, the opt-in flag or the input, and it starts
\* no session lookup and no backend call.
C8_BlankSubmitChangesNothing ==
    [][ chatEvent'.kind = "submit" /\ IsBlank(inputValue)
          => UNCHANGED <<messages, isProcessing, includeGraphData, inputValue,
                         calls, toasts, nSubmits>> ]_vars

\* a whitespace-only input was submitted with no request in flight
C8_Witness ==
    /\ chatEvent.kind = "submit"
    /\ inputValue = <<" ", "\t">>
    /\ ~isProcessing
    /\ calls = {}

\* C10: every accepted submit eventually completes: the in-flight flag it set
\* is eventually reset, and when a submit finishes the flag is reset and the
\* last transcript element is an assistant message other than the placeholder.
C10_SubmitCompletes ==
    /\ isProcessing ~> ~isProcessing
    /\ (calls # {}) ~> (calls = {})
    /\ [][ Finishes => /\ ~isProcessing'
                       /\ Last(messages').type = "assistant"
                       /\ Last(messages') # Placeholder ]_vars

\* a second submit was accepted after the first finished, and finished on 401
C10_Witness ==
    /\ nSubmits = 2
    /\ chatEvent = ChatEvent("response", Unauthorized)
    /\ calls = {}
    /\ ~isProcessing

\* C5: once every fetchTransactionHistory call has completed, the accumulated
\* transactions are the concatenation, in arrival order, of every page
\* returned; every request carries the page size 20.
C5_AccumulatesEveryPage ==
    /\ \A c \in historyCalls : c.limit = PageSize
    /\ historyCalls = {} => transactionHistory.transactions = arrived

\* C6: a successful write issues exactly one read and assigns nothing; a
\* failed write issues no read and assigns nothing; the call itself assigns
\* nothing; a completed read assigns its response.
C6_WriteThenRead ==
    [][ /\ configEvent'.kind = "writeResolved"
            => reads' = reads + 1 /\ autoTopUpConfig' = autoTopUpConfig
        /\ configEvent'.kind = "writeRejected"
            => reads' = reads /\ autoTopUpConfig' = autoTopUpConfig
        /\ configEvent'.kind = "updateCall"
            => reads' = reads /\ autoTopUpConfig' = autoTopUpConfig
        /\ configEvent'.kind = "readResolved"
            => autoTopUpConfig' = configEvent'.config ]_vars

\* every read, the follow-up of a successful write included, has completed and
\* the configuration held is the last response, which differs from what was
\* written
C6_Witness ==
    /\ configEvent.kind = "readResolved"
    /\ reads = 0 /\ writes = {}
    /\ nRefreshes = 0
    /\ lastWritten # None
    /\ autoTopUpConfig = configEvent.config
    /\ autoTopUpConfig # lastWritten

\* the indices of the user messages directly followed by an assistant message
PairIndices(t) ==
    { i \in 1..(Len(t) - 1) : t[i].type = "user" /\ t[i + 1].type = "assistant" }

\* C7: the conversation_history sent is exactly the {query, response} pairs of
\* the user messages directly followed by an assistant message, in transcript
\* order; [user A, assistant B, user C, assistant D] yields [{A,B},{C,D}]; and
\* the question being submitted adds no pair.
C7_HistoryPairsUserWithNextAssistant ==
    pairsPayload # None =>
        LET t == pairsTranscript
            h == pairsPayload[1].conversation_history
            I == PairIndices(t)
        IN  /\ Len(h) = Cardinality(I)
            /\ \A i \in I :
                 h[Cardinality({j \in I : j <= i})] =
                     [query |-> t[i].content, response |-> t[i + 1].content]
            /\ pairsPayload[1].query = pairsQuestion
            /\ ConversationHistory(Append(t, UserMsg(pairsQuestion))) = h
            /\ t = <<UserMsg(<<"A">>), AssistantMsg(<<"B">>),
                     UserMsg(<<"C">>), AssistantMsg(<<"D">>)>>
                 => h = << [query |-> <<"A">>, response |-> <<"B">>],
                           [query |-> <<"C">>, response |-> <<"D">>] >>

\* a payload built from a transcript that opens with an assistant message and
\* ends with an unanswered user message
C7_Witness ==
    /\ pairsPayload # None
    /\ pairsTranscript = <<AssistantMsg(<<"D">>), UserMsg(<<"A">>),
                           AssistantMsg(<<"B">>), UserMsg(<<"C">>)>>
    /\ pairsPayload[1].conversation_history =
           << [query |-> <<"A">>, response |-> <<"B">>] >>

\* absent, empty or whitespace-only
BlankOrAbsent(str) == str = None \/ IsBlank(str[1])

\* C9: after a click on a card once both agents are loaded the wizard state
\* holds exactly that card's slug and creator; at most one card is shown as
\* selected; Next is disabled exactly while the selected slug is absent, empty
\* or whitespace-only.
C9_LastSelectionWins ==
    /\ wizardEvent.kind = "click" /\ agents # <<>> =>
         /\ SelectedAgentSlug(wizardState) = Some(agents[wizardEvent.card].slug)
         /\ SelectedAgentCreator(wizardState) =
                Some(agents[wizardEvent.card].creator)
         /\ Selected(wizardEvent.card)
         /\ ~NextDisabled
    /\ Cardinality({ i \in 1..2 : Selected(i) }) <= 1
    /\ NextDisabled <=> BlankOrAbsent(SelectedAgentSlug(wizardState))

\* the second card was clicked and then the first, the agents having
\* different creators
C9_Witness ==
    /\ wizardEvent = WizardEvent("click", 1, 2)
    /\ Len(agents) = 2
    /\ agents[1].creator # agents[2].creator
    /\ wizardState = Some([selectedAgentSlug |-> Some(storeAgents[1].slug),
                           selectedAgentCreator |-> Some(agents[1].creator)])
    /\ Selected(1) /\ ~Selected(2)

====
